---- MODULE Spec2Model ----
(***************************************************************************)
(* The certificate issuance orchestrator of certificate/certificates.go:   *)
(* one invocation of an entry point of the Certifier (Obtain,              *)
(* ObtainForCSR, RenewWithOptions, RevokeWithReason, GetOCSP), from the    *)
(* caller's arguments to the values handed back.  The ACME API core, the   *)
(* HTTP client, the challenge solver and the crypto helpers are            *)
(* collaborators: each of their calls is logged in `calls` and its outcome *)
(* is chosen by the environment.                                           *)
(***************************************************************************)
EXTENDS Integers, Sequences, FiniteSets, TLC

VARIABLES
    entry,     \* the entry point the caller invoked, with its arguments
    pc,        \* position of the invocation
    req,       \* the ObtainRequest / ObtainForCSRRequest and the CertifierOptions
    domains,   \* local `domains`
    order,     \* local `order`, the acme.ExtendedOrder returned by Orders.NewWithOptions
    authz,     \* local `authz`, the targeted domains of the fetched authorizations
    csr,       \* the csr handed to getForCSR
    keyPem,    \* the privateKeyPem handed to getForCSR
    certRes,   \* the *Resource built by getForCSR (certRes)
    respOrder, \* the order Orders.UpdateForCSR answered with (respOrder of getForCSR),
               \* kept until the poll loop takes its first sample: it is not read after line 354
    chains,    \* what Certificates.GetAll answered the last time it was called
    got,       \* (cert, err) returned by getForOrder / getForCSR
    polled,    \* the order statuses returned by Orders.Get inside the poll loop
    elapsed,   \* samples wait.For has taken so far
    calls,     \* every call issued to a collaborator, in order
    failed,    \* the step that produced the error of this invocation, and that error
    ret,       \* the (*Resource, error) / error the invocation handed back to its caller
    ocsp       \* the ([]byte, *ocsp.Response) GetOCSP handed back with its error

vars ==
    <<entry, pc, req, domains, order, authz, csr, keyPem, certRes, respOrder, chains, got,
      polled, elapsed, calls, failed, ret, ocsp>>

-----------------------------------------------------------------------------
(* Bounds of the model *)

\* longest Domains list / DNSNames list of a request
MaxDomains == 2
\* samples the poll loop may take before the timer of wait.For fires
\* (timeout / (timeout/60) in the program)
MaxPolls == 3

-----------------------------------------------------------------------------
(* Values *)

\* "a.com" is plain ASCII, "u.de" stands for a name with a non-ASCII label,
\* "xn--bad" stands for a name idna.ToASCII rejects, "long65.example" stands
\* for a plain ASCII name of 65 characters.
Names == {"a.com", "u.de", "xn--bad", "long65.example"}

RECURSIVE SeqsUpTo(_, _)
SeqsUpTo(S, n) ==
    IF n = 0 THEN {<<>>}
    ELSE LET shorter == SeqsUpTo(S, n - 1)
         IN shorter \cup {Append(s, x) : s \in {t \in shorter : Len(t) = n - 1}, x \in S}

Range(s) == {s[i] : i \in 1..Len(s)}

Statuses == {"pending", "ready", "processing", "valid", "invalid"}

\* error values: the nil error, a plain error, and the composite obtainError
NilErr == [kind |-> "nil", cause |-> "", data |-> {}]
PlainErr(c) == [kind |-> "plain", cause |-> c, data |-> {}]

\* *Resource: nil, or a record of the struct's fields ("" is an empty []byte / string)
NilResource ==
    [nil |-> TRUE, Domain |-> "", CertURL |-> "", CertStableURL |-> "", PrivateKey |-> "",
     Certificate |-> "", IssuerCertificate |-> "", CSR |-> ""]

NoCSR == [nil |-> TRUE, CommonName |-> "", DNSNames |-> <<>>, Raw |-> ""]
NoOrder ==
    [Identifiers |-> <<>>, Authorizations |-> <<>>, Status |-> "", Certificate |-> "",
     Error |-> "", Location |-> ""]

NotReturned == [returned |-> FALSE, panic |-> FALSE, res |-> NilResource, err |-> NilErr]
Return(res, err) == [returned |-> TRUE, panic |-> FALSE, res |-> res, err |-> err]
\* an index into an empty slice: the goroutine panics, the call never returns
Panic == [returned |-> FALSE, panic |-> TRUE, res |-> NilResource, err |-> NilErr]

Call(op, arg) == [op |-> op, arg |-> arg]

\* GetOCSP's first two results: nil, nil
NoOCSP == [raw |-> "", response |-> ""]

NoFailure == [op |-> "", err |-> NilErr]
Failure(op, err) == [op |-> op, err |-> err]

-----------------------------------------------------------------------------
(* Pure helpers *)

\* idna.ToASCII on the names of the model: an ASCII name is returned as it is,
\* a name with a non-ASCII label is returned in its xn-- form, and a name that
\* cannot be encoded is an error.
ToASCII(d) ==
    CASE d = "u.de"    -> [ok |-> TRUE,  val |-> "xn--u.de"]
      [] d = "xn--bad" -> [ok |-> FALSE, val |-> ""]
      [] OTHER         -> [ok |-> TRUE,  val |-> d]

\* sanitizeDomain putting each encoding in front of the ones it already has
RECURSIVE sanitizeDomainPrepends(_)
sanitizeDomainPrepends(ds) ==
    IF ds = <<>> THEN <<>>
    ELSE LET r == ToASCII(Head(ds))
         IN IF r.ok THEN sanitizeDomainPrepends(Tail(ds)) \o <<r.val>>
            ELSE sanitizeDomainPrepends(Tail(ds))

\* sanitizeDomain: append the encoding of every name that encodes, skip the others
RECURSIVE sanitizeDomain(_)
sanitizeDomain(ds) ==
    IF ds = <<>> THEN <<>>
    ELSE LET r == ToASCII(Head(ds))
         IN IF r.ok THEN <<r.val>> \o sanitizeDomain(Tail(ds))
            ELSE sanitizeDomain(Tail(ds))

\* certcrypto.ExtractDomainsCSR: the CommonName when set, then every DNS name
\* not already listed
RECURSIVE appendUnique(_, _)
appendUnique(acc, names) ==
    IF names = <<>> THEN acc
    ELSE IF Head(names) \in Range(acc) THEN appendUnique(acc, Tail(names))
    ELSE appendUnique(Append(acc, Head(names)), Tail(names))

ExtractDomainsCSR(c) ==
    appendUnique(IF c.CommonName # "" THEN <<c.CommonName>> ELSE <<>>, c.DNSNames)

\* certcrypto.PEMEncode of a key
PEMEncode(key) == "PEM(" \o key \o ")"

\* len(domain): the names of the model are all short, "long65.example" stands
\* for a name of 65 characters
MaxCommonNameLen == 64
NameLen(d) == IF d = "long65.example" THEN MaxCommonNameLen + 1 ELSE 10

\* getForOrder, lines 304-325: the CommonName and the SAN list of the CSR
commonNameOf(ds, disableCommonName) ==
    IF NameLen(ds[1]) <= MaxCommonNameLen /\ ~disableCommonName THEN ds[1] ELSE ""

\* the SAN loop without the test of line 321
RECURSIVE sanLoopKeepsAll(_, _, _)
sanLoopKeepsAll(san, identifiers, commonName) ==
    IF identifiers = <<>> THEN san
    ELSE sanLoopKeepsAll(Append(san, Head(identifiers)), Tail(identifiers), commonName)

\* lines 316-325: the CommonName first, then every identifier of the order
\* that is not the CommonName
RECURSIVE sanLoop(_, _, _)
sanLoop(san, identifiers, commonName) ==
    IF identifiers = <<>> THEN san
    ELSE sanLoop(IF Head(identifiers) # commonName THEN Append(san, Head(identifiers)) ELSE san,
                 Tail(identifiers), commonName)

sanOf(commonName, identifiers) ==
    sanLoop(IF commonName # "" THEN <<commonName>> ELSE <<>>, identifiers, commonName)

\* the Error Aggregator (obtainError): a map from domain to error
newObtainError == {}
Add(failures, domain, err) == {p \in failures : p[1] # domain} \cup {<<domain, err>>}
Join(failures) ==
    IF failures = {} THEN NilErr
    ELSE [kind |-> "obtainError", cause |-> "", data |-> failures]

\* for _, auth := range authz { failures.Add(challenge.GetTargetedDomain(auth), err) }
RECURSIVE addAll(_, _, _)
addAll(failures, auths, err) ==
    IF auths = <<>> THEN failures
    ELSE addAll(Add(failures, Head(auths), err), Tail(auths), err)

\* c.deactivateAuthorizations(order, force): logged as one call carrying `force`
deactivateAuthorizations(log, force) ==
    Append(log, Call("deactivateAuthorizations", IF force THEN "force" ELSE "noforce"))

\* checkOrderStatus with `ready` taken for a finished order
checkOrderStatusReadyIsValid(o) ==
    CASE o.Status \in {"valid", "ready"} -> [valid |-> TRUE, err |-> NilErr]
      [] o.Status = "invalid" -> [valid |-> FALSE, err |-> PlainErr("invalid order: " \o o.Error)]
      [] OTHER                -> [valid |-> FALSE, err |-> NilErr]

\* checkOrderStatus
checkOrderStatus(o) ==
    CASE o.Status = "valid"   -> [valid |-> TRUE,  err |-> NilErr]
      [] o.Status = "invalid" -> [valid |-> FALSE, err |-> PlainErr("invalid order: " \o o.Error)]
      [] OTHER                -> [valid |-> FALSE, err |-> NilErr]

-----------------------------------------------------------------------------
(* Chains returned by Certificates.GetAll, and the Chain Selector *)

DefaultURL == "acme/cert/0"
AltURL == "acme/cert/0/alt"

\* issuer bundles: "issuerA.pem" and "issuerX.pem" parse and their topmost
\* certificate has Issuer CommonName "RootA" / "RootX"; "" (no issuer sent)
\* and "garbage" do not parse
PreferredChains == {"", "RootX"}

\* the maps Certificates.GetAll may answer with
CertMaps ==
    { [l \in {DefaultURL} |-> [Cert |-> "leaf0.pem", Issuer |-> "issuerA.pem"]],
      [l \in {DefaultURL, AltURL} |->
          IF l = DefaultURL THEN [Cert |-> "leaf0.pem", Issuer |-> "issuerA.pem"]
          ELSE [Cert |-> "leaf1.pem", Issuer |-> "issuerX.pem"]],
      [l \in {DefaultURL, AltURL} |->
          IF l = DefaultURL THEN [Cert |-> "leaf0.pem", Issuer |-> ""]
          ELSE [Cert |-> "leaf1.pem", Issuer |-> "issuerX.pem"]],
      [l \in {AltURL} |-> [Cert |-> "leaf1.pem", Issuer |-> "issuerX.pem"]] }

\* the orders in which `for link, cert := range certs` may visit the map
Orderings(S) == {s \in SeqsUpTo(S, Cardinality(S)) : Len(s) = Cardinality(S) /\ Range(s) = S}

\* certs[key]: the zero value when the key is missing
Lookup(certs, key) ==
    IF key \in DOMAIN certs THEN certs[key] ELSE [Cert |-> "", Issuer |-> ""]

\* certcrypto.ParsePEMBundle(issuer) followed by certs[len(certs)-1].Issuer.CommonName
ParseIssuer(issuer) ==
    CASE issuer = "issuerA.pem" -> [ok |-> TRUE, topIssuerCN |-> "RootA"]
      [] issuer = "issuerX.pem" -> [ok |-> TRUE, topIssuerCN |-> "RootX"]
      [] OTHER                  -> [ok |-> FALSE, topIssuerCN |-> ""]

\* hasPreferredChain
hasPreferredChain(issuer, preferredChain) ==
    LET p == ParseIssuer(issuer)
    IN IF ~p.ok THEN [ok |-> FALSE, err |-> PlainErr("parse issuer bundle")]
       ELSE [ok |-> p.topIssuerCN = preferredChain, err |-> NilErr]

\* checkResponse, lines 419-439: the loop over the candidate chains
RECURSIVE chainLoop(_, _, _, _)
chainLoop(certs, visit, res, preferredChain) ==
    IF visit = <<>> THEN [done |-> TRUE, err |-> NilErr, res |-> res]
    ELSE LET link == Head(visit)
             cert == certs[link]
             h == hasPreferredChain(cert.Issuer, preferredChain)
         IN IF h.err # NilErr THEN [done |-> FALSE, err |-> h.err, res |-> res]
            ELSE IF h.ok
            THEN [done |-> TRUE, err |-> NilErr,
                  res |-> [res EXCEPT !.IssuerCertificate = cert.Issuer,
                                      !.Certificate = cert.Cert,
                                      !.CertURL = link,
                                      !.CertStableURL = link]]
            ELSE chainLoop(certs, Tail(visit), res, preferredChain)

\* what Certificates.GetAll answered: an error, or a map and the order in
\* which the range loop visits it
GetAllErr == [err |-> PlainErr("get certificate"), certs |-> <<>>, visit |-> <<>>]
\* Certificates.GetAll was not called yet
NoChains == [err |-> NilErr, certs |-> <<>>, visit |-> <<>>]
GetAllAnswers ==
    {GetAllErr} \cup
    UNION {{[err |-> NilErr, certs |-> m, visit |-> v] : v \in Orderings(DOMAIN m)} : m \in CertMaps}

\* checkResponse: (done, err) and the certRes it leaves behind; `ga` is the
\* answer of Certificates.GetAll, read only when the order is valid
checkResponse(o, res, ga, preferredChain) ==
    LET st == checkOrderStatus(o)
    IN IF st.err # NilErr \/ ~st.valid
       THEN [done |-> st.valid, err |-> st.err, res |-> res, fetched |-> FALSE]
       ELSE IF ga.err # NilErr
       THEN [done |-> FALSE, err |-> ga.err, res |-> res, fetched |-> TRUE]
       ELSE LET def == Lookup(ga.certs, o.Certificate)
                res1 == [res EXCEPT !.IssuerCertificate = def.Issuer,
                                    !.Certificate = def.Cert,
                                    !.CertURL = o.Certificate,
                                    !.CertStableURL = o.Certificate]
            IN IF preferredChain = ""
               THEN [done |-> TRUE, err |-> NilErr, res |-> res1, fetched |-> TRUE]
               ELSE [fetched |-> TRUE] @@
                    chainLoop(ga.certs, ga.visit, res1, preferredChain)

-----------------------------------------------------------------------------
(* Requests and the answers of the collaborators *)

RECURSIVE JoinNames(_)
JoinNames(ns) == IF ns = <<>> THEN "" ELSE Head(ns) \o "," \o JoinNames(Tail(ns))

\* the CSRs a caller may hand to ObtainForCSR
CSRs ==
    {[nil |-> FALSE, CommonName |-> cn, DNSNames |-> dns,
      Raw |-> "csr(" \o cn \o ";" \o JoinNames(dns) \o ")"] :
        cn \in {"", "a.com"}, dns \in {<<>>, <<"a.com">>, <<"a.com", "b.org">>}}

ObtainRequests ==
    {[op |-> "Obtain", Domains |-> ds, CSR |-> NoCSR, PrivateKey |-> k, PreferredChain |-> p,
      AlwaysDeactivateAuthorizations |-> a, DisableCommonName |-> dcn] :
        ds \in SeqsUpTo(Names, MaxDomains), k \in {"", "key1"}, p \in PreferredChains,
        a \in BOOLEAN, dcn \in BOOLEAN}

ObtainForCSRRequests ==
    {[op |-> "ObtainForCSR", Domains |-> <<>>, CSR |-> c, PrivateKey |-> k, PreferredChain |-> p,
      AlwaysDeactivateAuthorizations |-> a, DisableCommonName |-> FALSE] :
        c \in CSRs \cup {NoCSR}, k \in {"", "key1"}, p \in PreferredChains, a \in BOOLEAN}

Reverse(s) == [i \in 1..Len(s) |-> s[Len(s) + 1 - i]]

\* the Location header of the new-order response
OrderLocation == "acme/order/1"

\* the orders Orders.NewWithOptions may answer with: the identifiers are the
\* requested names in any order the CA likes, and the CA lists one
\* authorization per identifier or none at all
NewOrders(ds) ==
    UNION {{[Identifiers |-> ids, Authorizations |-> au, Status |-> "pending",
             Certificate |-> "", Error |-> "", Location |-> OrderLocation] :
               au \in {ids, <<>>}} :
           ids \in {ds, Reverse(ds)}}

NewOrderErrs == {PlainErr("new-order: rate limited"), PlainErr("new-order: rejected identifier")}

\* the errors Solve may return: the validation failure of one of the domains
SolveErrs(auths) ==
    IF auths = <<>> THEN {PlainErr("solve: no challenge")}
    ELSE {PlainErr("solve: " \o d) : d \in Range(auths)}

\* the problem documents a CA attaches to an invalid order
ProblemDetails == {"urn:ietf:params:acme:error:caa", "urn:ietf:params:acme:error:unauthorized"}

\* the orders Orders.UpdateForCSR and Orders.Get may answer with (these
\* responses bring no Location of their own)
PolledOrders ==
    {[Identifiers |-> <<>>, Authorizations |-> <<>>, Status |-> st,
      Certificate |-> IF st = "valid" THEN DefaultURL ELSE "", Error |-> "",
      Location |-> ""] :
        st \in Statuses \ {"invalid"}}
    \cup
    {[Identifiers |-> <<>>, Authorizations |-> <<>>, Status |-> "invalid", Certificate |-> "",
      Error |-> pd, Location |-> ""] : pd \in ProblemDetails}

-----------------------------------------------------------------------------
(* Stored artifacts: PEM bundles, stored CSRs and keys, and their decoders *)

\* x509 certificates: a leaf for a.com and xn--u.de, the leaf of the
\* alternate chain, the same leaf without an OCSP responder, the same leaf
\* without an issuing-certificate URL, and the CA certificate that issued them
Leaf0 ==
    [IsCA |-> FALSE, Raw |-> "der(leaf0)", CommonName |-> "a.com",
     DNSNames |-> <<"a.com", "xn--u.de">>,
     OCSPServer |-> <<"http://ocsp.ca/0", "http://ocsp.ca/1">>,
     IssuingCertificateURL |-> <<"http://ca/issuerA.der", "http://mirror/issuerA.der">>]
Leaf1 == [Leaf0 EXCEPT !.Raw = "der(leaf1)"]
LeafNoOCSP == [Leaf0 EXCEPT !.Raw = "der(leaf2)", !.OCSPServer = <<>>]
LeafNoIssuerURL == [Leaf0 EXCEPT !.Raw = "der(leaf3)", !.IssuingCertificateURL = <<>>]
IssuerA ==
    [IsCA |-> TRUE, Raw |-> "der(issuerA)", CommonName |-> "Issuer A", DNSNames |-> <<>>,
     OCSPServer |-> <<>>, IssuingCertificateURL |-> <<>>]

\* certcrypto.ParsePEMBundle: the certificates of a bundle in their order,
\* or an error when the bytes hold no certificate
ParsePEMBundle(bundle) ==
    CASE bundle = "leaf0.pem"             -> [ok |-> TRUE, certs |-> <<Leaf0>>]
      [] bundle = "leaf0.pem+issuerA.pem" -> [ok |-> TRUE, certs |-> <<Leaf0, IssuerA>>]
      [] bundle = "leaf1.pem"             -> [ok |-> TRUE, certs |-> <<Leaf1>>]
      [] bundle = "leaf2.pem"             -> [ok |-> TRUE, certs |-> <<LeafNoOCSP>>]
      [] bundle = "leaf2.pem+issuerA.pem" -> [ok |-> TRUE, certs |-> <<LeafNoOCSP, IssuerA>>]
      [] bundle = "leaf3.pem"             -> [ok |-> TRUE, certs |-> <<LeafNoIssuerURL>>]
      [] bundle = "issuerA.pem"           -> [ok |-> TRUE, certs |-> <<IssuerA>>]
      [] bundle = "issuerA.pem+leaf0.pem" -> [ok |-> TRUE, certs |-> <<IssuerA, Leaf0>>]
      [] OTHER                            -> [ok |-> FALSE, certs |-> <<>>]

ParsePEMBundleErr == PlainErr("no certificates were found while parsing the bundle")

\* certcrypto.ExtractDomains: the CommonName, then every DNS name not already listed
ExtractDomains(cert) ==
    appendUnique(IF cert.CommonName # "" THEN <<cert.CommonName>> ELSE <<>>, cert.DNSNames)

\* certcrypto.PemDecodeTox509CSR: the CSR whose PEM encoding the bytes are
PemDecodeTox509CSR(pem) ==
    LET found == {c \in CSRs : PEMEncode(c.Raw) = pem}
    IN IF found = {} THEN [ok |-> FALSE, csr |-> NoCSR]
       ELSE [ok |-> TRUE, csr |-> CHOOSE c \in found : TRUE]

\* certcrypto.ParsePEMPrivateKey: the key whose PEM encoding the bytes are
PrivateKeys == {"key1", "generated"}
ParsePEMPrivateKey(pem) ==
    LET found == {k \in PrivateKeys : PEMEncode(k) = pem}
    IN IF found = {} THEN [ok |-> FALSE, key |-> ""]
       ELSE [ok |-> TRUE, key |-> CHOOSE k \in found : TRUE]

\* the Resources and RenewOptions a caller may hand to RenewWithOptions
NoOptions == [nil |-> TRUE, PreferredChain |-> "", AlwaysDeactivateAuthorizations |-> FALSE]
RenewOptions ==
    {NoOptions, [nil |-> FALSE, PreferredChain |-> "RootX", AlwaysDeactivateAuthorizations |-> TRUE]}
StoredCSR ==
    PEMEncode((CHOOSE c \in CSRs : c.CommonName = "a.com" /\ c.DNSNames = <<"a.com", "b.org">>).Raw)
RenewCalls ==
    {[op |-> "RenewWithOptions",
      certRes |-> [NilResource EXCEPT !.nil = FALSE, !.Domain = "a.com", !.CertURL = DefaultURL,
                                      !.CertStableURL = DefaultURL, !.Certificate = c,
                                      !.CSR = s, !.PrivateKey = k],
      options |-> o] :
        c \in {"leaf0.pem", "issuerA.pem+leaf0.pem", "garbage"},
        s \in {"", StoredCSR, "garbage"},
        k \in {"", PEMEncode("key1"), "garbage"},
        o \in RenewOptions}

\* the bundles and reason codes a caller may hand to Revoke / RevokeWithReason
\* (Revoke passes a nil reason)
Bundles ==
    {"leaf0.pem", "leaf0.pem+issuerA.pem", "leaf2.pem", "leaf2.pem+issuerA.pem", "leaf3.pem",
     "issuerA.pem", "issuerA.pem+leaf0.pem", "garbage"}
Reasons == {"nil", "0", "1", "4"}
RevokeCalls == {[op |-> "RevokeWithReason", cert |-> b, reason |-> r] : b \in Bundles, r \in Reasons}

\* acme.RevokeCertMessage{Certificate: base64url(x509Cert.Raw), Reason: reason}
RevokeCertMessage(x509Cert, reason) == "b64(" \o x509Cert.Raw \o ");reason=" \o reason

\* the bundles a caller may hand to GetOCSP
GetOCSPCalls == {[op |-> "GetOCSP", bundle |-> b] : b \in Bundles}

\* no request was built yet; the Certifier of a renewal keeps the default
\* CertifierOptions (DisableCommonName false)
NoRequest ==
    [op |-> "", Domains |-> <<>>, CSR |-> NoCSR, PrivateKey |-> "", PreferredChain |-> "",
     AlwaysDeactivateAuthorizations |-> FALSE, DisableCommonName |-> FALSE]

-----------------------------------------------------------------------------
(* wait.For *)

\* one turn of the loop of wait.For after the callback returned (stop, err):
\* an error ends the wait with that error, stop ends it with nil, anything
\* else sleeps for one interval
waitForTurn(stop, err) ==
    CASE err # NilErr -> [exit |-> TRUE, err |-> err]
      [] stop         -> [exit |-> TRUE, err |-> NilErr]
      [] OTHER        -> [exit |-> FALSE, err |-> NilErr]

\* the error of wait.For when its timer fired first
waitForTimeUp == PlainErr("certificate: time limit exceeded")

-----------------------------------------------------------------------------
(* The tails of Obtain and ObtainForCSR, after getForOrder / getForCSR returned *)

\* the tail of Obtain with the cleanup of the failure exits copied into it
ObtainTailAlwaysCleans(log, cert, err) ==
    LET failures == IF err # NilErr THEN addAll(newObtainError, authz, err) ELSE newObtainError
    IN [calls |-> deactivateAuthorizations(log, req.AlwaysDeactivateAuthorizations),
        ret |-> Return(cert, Join(failures))]

\* Obtain, lines 200-212
ObtainTail(log, cert, err) ==
    LET failures == IF err # NilErr THEN addAll(newObtainError, authz, err) ELSE newObtainError
    IN [calls |-> IF req.AlwaysDeactivateAuthorizations
                  THEN deactivateAuthorizations(log, TRUE) ELSE log,
        ret |-> Return(cert, Join(failures))]

\* the tail of ObtainForCSR without lines 285-288
ObtainForCSRTailNoStamp(log, cert, err) ==
    LET failures == IF err # NilErr THEN addAll(newObtainError, authz, err) ELSE newObtainError
    IN [calls |-> IF req.AlwaysDeactivateAuthorizations
                  THEN deactivateAuthorizations(log, TRUE) ELSE log,
        ret |-> Return(cert, Join(failures))]

\* ObtainForCSR, lines 275-290
ObtainForCSRTail(log, cert, err) ==
    LET failures == IF err # NilErr THEN addAll(newObtainError, authz, err) ELSE newObtainError
    IN [calls |-> IF req.AlwaysDeactivateAuthorizations
                  THEN deactivateAuthorizations(log, TRUE) ELSE log,
        ret |-> Return(IF cert.nil THEN cert ELSE [cert EXCEPT !.CSR = PEMEncode(req.CSR.Raw)],
                       Join(failures))]

\* getForOrder / getForCSR return (cert, err) and the caller runs to its return
Finish(log, cert, op, err) ==
    LET t == IF req.op = "Obtain" THEN ObtainTail(log, cert, err)
             ELSE ObtainForCSRTail(log, cert, err)
    IN /\ got' = [res |-> cert, err |-> err]
       /\ failed' = IF err # NilErr THEN Failure(op, err) ELSE failed
       /\ calls' = t.calls
       /\ ret' = t.ret
       /\ pc' = "done"

\* the failure exits with the cleanup forced whatever the caller asked for
FailEarlyForced(log, op, err) ==
    /\ failed' = Failure(op, err)
    /\ calls' = deactivateAuthorizations(log, TRUE)
    /\ ret' = Return(NilResource, err)
    /\ pc' = "done"

\* the failure exits of lines 184-196 / 251-263
FailEarly(log, op, err) ==
    /\ failed' = Failure(op, err)
    /\ calls' = deactivateAuthorizations(log, req.AlwaysDeactivateAuthorizations)
    /\ ret' = Return(NilResource, err)
    /\ pc' = "done"

-----------------------------------------------------------------------------
(* The invocation *)

Init ==
    /\ \/ /\ req \in ObtainRequests \cup ObtainForCSRRequests
          /\ entry = [op |-> req.op]
          /\ pc = "start"
       \/ /\ entry \in RenewCalls
          /\ req = NoRequest
          /\ pc = "renew"
       \/ /\ entry \in RevokeCalls
          /\ req = NoRequest
          /\ pc = "revoke"
       \/ /\ entry \in GetOCSPCalls
          /\ req = NoRequest
          /\ pc = "ocsp"
    /\ respOrder = NoOrder
    /\ chains = NoChains
    /\ ocsp = NoOCSP
    /\ domains = <<>>
    /\ order = NoOrder
    /\ authz = <<>>
    /\ csr = [CommonName |-> "", SAN |-> <<>>, Raw |-> ""]
    /\ keyPem = ""
    /\ certRes = NilResource
    /\ got = [res |-> NilResource, err |-> NilErr]
    /\ polled = <<>>
    /\ elapsed = 0
    /\ calls = <<>>
    /\ failed = NoFailure
    /\ ret = NotReturned

\* order creation whose failure exit runs the cleanup of the later exits
NewOrderCleansUp(ds) ==
    /\ domains' = ds
    /\ LET log == Append(calls, Call("Orders.NewWithOptions", JoinNames(ds)))
       IN \/ /\ \E e \in NewOrderErrs : FailEarly(log, "Orders.NewWithOptions", e)
             /\ order' = order
          \/ \E o \in NewOrders(ds) :
                /\ order' = o
                /\ calls' = log
                /\ pc' = "authz"
                /\ UNCHANGED <<failed, ret>>
    /\ UNCHANGED <<entry, respOrder, ocsp, chains, req, authz, csr, keyPem, certRes, got, polled, elapsed>>

\* lines 179-182 / 246-249: create the order
NewOrder(ds) ==
    /\ domains' = ds
    /\ LET log == Append(calls, Call("Orders.NewWithOptions", JoinNames(ds)))
       IN /\ calls' = log
          /\ \/ \E e \in NewOrderErrs :
                   /\ failed' = Failure("Orders.NewWithOptions", e)
                   /\ ret' = Return(NilResource, e)
                   /\ pc' = "done"
                   /\ order' = order
             \/ \E o \in NewOrders(ds) :
                   /\ order' = o
                   /\ pc' = "authz"
                   /\ UNCHANGED <<failed, ret>>
    /\ UNCHANGED <<entry, respOrder, ocsp, chains, req, authz, csr, keyPem, certRes, got, polled, elapsed>>

\* Obtain without the check of lines 160-162
ObtainStartNoCheck ==
    /\ pc = "start"
    /\ req.op = "Obtain"
    /\ NewOrder(sanitizeDomain(req.Domains))

\* Obtain, lines 159-182
ObtainStart ==
    /\ pc = "start"
    /\ req.op = "Obtain"
    /\ IF Len(req.Domains) = 0
       THEN /\ ret' = Return(NilResource, PlainErr("no domains to obtain a certificate for"))
            /\ failed' = Failure("Obtain", PlainErr("no domains to obtain a certificate for"))
            /\ pc' = "done"
            /\ UNCHANGED <<entry, respOrder, ocsp, chains, req, domains, order, authz, csr, keyPem, certRes, got, polled,
                           elapsed, calls>>
       ELSE NewOrder(sanitizeDomain(req.Domains))

\* ObtainForCSR, lines 224-249
ObtainForCSRStart ==
    /\ pc = "start"
    /\ req.op = "ObtainForCSR"
    /\ IF req.CSR.nil
       THEN /\ ret' = Return(NilResource,
                             PlainErr("cannot obtain resource for CSR: CSR is missing"))
            /\ failed' = Failure("ObtainForCSR",
                                  PlainErr("cannot obtain resource for CSR: CSR is missing"))
            /\ pc' = "done"
            /\ UNCHANGED <<entry, respOrder, ocsp, chains, req, domains, order, authz, csr, keyPem, certRes, got, polled,
                           elapsed, calls>>
       ELSE NewOrder(ExtractDomainsCSR(req.CSR))

\* lines 184-189 / 251-256: c.getAuthorizations(order)
GetAuthorizations ==
    /\ pc = "authz"
    /\ LET log == Append(calls, Call("getAuthorizations", ""))
       IN \/ /\ FailEarly(log, "getAuthorizations", PlainErr("get authorizations"))
             /\ authz' = authz
          \/ /\ authz' = order.Authorizations
             /\ calls' = log
             /\ pc' = "solve"
             /\ UNCHANGED <<failed, ret>>
    /\ UNCHANGED <<entry, respOrder, ocsp, chains, req, domains, order, csr, keyPem, certRes, got, polled,
                   elapsed>>

\* Solve whose failure exit lacks its return
SolveKeepsGoing ==
    /\ pc = "solve"
    /\ LET log == Append(calls, Call("Solve", JoinNames(authz)))
       IN \/ \E e \in SolveErrs(authz) :
                /\ failed' = Failure("Solve", e)
                /\ calls' = deactivateAuthorizations(log, req.AlwaysDeactivateAuthorizations)
                /\ pc' = "build"
                /\ ret' = ret
          \/ /\ calls' = log
             /\ pc' = "build"
             /\ UNCHANGED <<failed, ret>>
    /\ UNCHANGED <<entry, respOrder, ocsp, chains, req, domains, order, authz, csr, keyPem, certRes, got,
                   polled, elapsed>>

\* Solve called again after a failure
SolveRetries ==
    /\ pc = "solve"
    /\ LET log == Append(calls, Call("Solve", JoinNames(authz)))
       IN \/ \E e \in SolveErrs(authz) :
                /\ failed' = Failure("Solve", e)
                /\ calls' = log
                /\ UNCHANGED <<pc, ret>>
          \/ /\ calls' = log
             /\ pc' = "build"
             /\ UNCHANGED <<failed, ret>>
    /\ UNCHANGED <<entry, respOrder, ocsp, chains, req, domains, order, authz, csr, keyPem, certRes, got,
                   polled, elapsed>>

\* lines 191-196 / 258-263: c.resolver.Solve(authz)
Solve ==
    /\ pc = "solve"
    /\ LET log == Append(calls, Call("Solve", JoinNames(authz)))
       IN \/ \E e \in SolveErrs(authz) : FailEarly(log, "Solve", e)
          \/ /\ calls' = log
             /\ pc' = "build"
             /\ UNCHANGED <<failed, ret>>
    /\ UNCHANGED <<entry, respOrder, ocsp, chains, req, domains, order, authz, csr, keyPem, certRes, got,
                   polled, elapsed>>

\* getForOrder, lines 293-339: the key, the CommonName, the SAN list, the CSR
GetForOrder ==
    /\ pc = "build"
    /\ req.op = "Obtain"
    /\ \/ /\ req.PrivateKey = ""
          /\ Finish(calls, NilResource, "GeneratePrivateKey", PlainErr("generate private key"))
          /\ UNCHANGED <<csr, keyPem>>
       \/ /\ domains = <<>>
          /\ ret' = Panic
          /\ pc' = "done"
          /\ UNCHANGED <<csr, keyPem, got, calls, failed>>
       \/ /\ domains # <<>>
          /\ Finish(calls, NilResource, "CreateCSR", PlainErr("create CSR"))
          /\ UNCHANGED <<csr, keyPem>>
       \/ /\ domains # <<>>
          /\ LET privateKey == IF req.PrivateKey = "" THEN "generated" ELSE req.PrivateKey
                 commonName == commonNameOf(domains, req.DisableCommonName)
             IN /\ csr' = [CommonName |-> commonName,
                           SAN |-> sanOf(commonName, order.Identifiers),
                           Raw |-> "csr(created)"]
                /\ keyPem' = PEMEncode(privateKey)
          /\ pc' = "finalize"
          /\ UNCHANGED <<got, calls, failed, ret>>
    /\ UNCHANGED <<entry, respOrder, ocsp, chains, req, domains, order, authz, certRes, polled, elapsed>>

\* ObtainForCSR, lines 267-274: the arguments of getForCSR
PrepareForCSR ==
    /\ pc = "build"
    /\ req.op = "ObtainForCSR"
    /\ keyPem' = IF req.PrivateKey # "" THEN PEMEncode(req.PrivateKey) ELSE ""
    /\ csr' = [CommonName |-> req.CSR.CommonName, SAN |-> req.CSR.DNSNames, Raw |-> req.CSR.Raw]
    /\ pc' = "finalize"
    /\ UNCHANGED <<entry, respOrder, ocsp, chains, req, domains, order, authz, certRes, got, polled, elapsed,
                   calls, failed, ret>>

\* getForCSR, lines 343-364: finalize, and the shortcut when the order is valid at once
Finalize ==
    /\ pc = "finalize"
    /\ LET log == Append(calls, Call("Orders.UpdateForCSR", csr.Raw))
       IN \/ /\ Finish(log, NilResource, "Orders.UpdateForCSR", PlainErr("finalize"))
             /\ UNCHANGED <<certRes, respOrder, chains, elapsed>>
          \/ /\ domains = <<>>
             /\ \E o \in PolledOrders : respOrder' = o
             /\ calls' = log
             /\ ret' = Panic
             /\ pc' = "done"
             /\ UNCHANGED <<certRes, chains, got, elapsed, failed>>
          \/ /\ domains # <<>>
             /\ \E o \in PolledOrders :
                  LET res0 == [NilResource EXCEPT !.nil = FALSE,
                                                  !.Domain = domains[1],
                                                  !.CertURL = o.Certificate,
                                                  !.PrivateKey = keyPem]
                  IN /\ respOrder' = o
                     /\ IF o.Status = "valid"
                        THEN \E ga \in GetAllAnswers :
                               LET r == checkResponse(o, res0, ga, req.PreferredChain)
                                   log2 == Append(log, Call("Certificates.GetAll", o.Certificate))
                               IN /\ certRes' = r.res
                                  /\ chains' = ga
                                  /\ elapsed' = elapsed
                                  /\ IF r.err # NilErr
                                     THEN Finish(log2, NilResource, "checkResponse", r.err)
                                     ELSE Finish(log2, r.res, "", NilErr)
                        ELSE /\ certRes' = res0
                             /\ chains' = chains
                             /\ elapsed' = 0
                             /\ calls' = log
                             /\ pc' = "poll"
                             /\ UNCHANGED <<got, failed, ret>>
    /\ UNCHANGED <<entry, ocsp, req, domains, order, authz, csr, keyPem, polled>>

\* getForCSR, lines 371-385: one sample of the poll loop
PollStep ==
    /\ pc = "poll"
    /\ elapsed < MaxPolls
    /\ respOrder' = NoOrder
    /\ LET log == Append(calls, Call("Orders.Get", order.Location))
       IN \/ /\ LET w == waitForTurn(FALSE, PlainErr("get order"))
                IN Finish(log, certRes, "Orders.Get", w.err)
             /\ UNCHANGED <<certRes, chains, polled, elapsed>>
          \/ \E ord \in PolledOrders :
               \E ga \in (IF ord.Status = "valid" THEN GetAllAnswers ELSE {GetAllErr}) :
                 LET r == checkResponse(ord, certRes, ga, req.PreferredChain)
                     log2 == IF r.fetched
                             THEN Append(log, Call("Certificates.GetAll", ord.Certificate))
                             ELSE log
                     w == waitForTurn(r.done, r.err)
                 IN /\ polled' = Append(polled, ord.Status)
                    /\ certRes' = r.res
                    /\ chains' = IF r.fetched THEN ga ELSE chains
                    /\ IF w.exit
                       THEN /\ Finish(log2, r.res, "checkResponse", w.err)
                            /\ elapsed' = elapsed
                       ELSE /\ elapsed' = elapsed + 1
                            /\ calls' = log2
                            /\ UNCHANGED <<pc, got, failed, ret>>
    /\ UNCHANGED <<entry, ocsp, req, domains, order, authz, csr, keyPem>>

\* getForCSR, line 371: the timer of wait.For fires before the order is valid
PollTimeout ==
    /\ pc = "poll"
    /\ Finish(calls, certRes, "wait.For", waitForTimeUp)
    /\ respOrder' = NoOrder
    /\ UNCHANGED <<entry, ocsp, chains, req, domains, order, authz, csr, keyPem, certRes, polled,
                   elapsed>>

\* RenewWithOptions without the check of lines 521-524
renewRequestAcceptsCA(R, options) ==
    LET b == ParsePEMBundle(R.Certificate)
        d == PemDecodeTox509CSR(R.CSR)
        k == IF R.PrivateKey # "" THEN ParsePEMPrivateKey(R.PrivateKey)
             ELSE [ok |-> TRUE, key |-> ""]
    IN CASE ~b.ok -> [err |-> ParsePEMBundleErr, req |-> NoRequest]
         [] b.ok /\ R.CSR # "" /\ ~d.ok ->
                [err |-> PlainErr("PEM block is not a certificate request"), req |-> NoRequest]
         [] b.ok /\ R.CSR # "" /\ d.ok ->
                [err |-> NilErr,
                 req |-> [NoRequest EXCEPT
                            !.op = "ObtainForCSR", !.CSR = d.csr,
                            !.PreferredChain = options.PreferredChain,
                            !.AlwaysDeactivateAuthorizations =
                                options.AlwaysDeactivateAuthorizations]]
         [] b.ok /\ R.CSR = "" /\ ~k.ok ->
                [err |-> PlainErr("unknown PEM header"), req |-> NoRequest]
         [] OTHER ->
                [err |-> NilErr,
                 req |-> [NoRequest EXCEPT
                            !.op = "Obtain", !.Domains = ExtractDomains(b.certs[1]),
                            !.PrivateKey = k.key,
                            !.PreferredChain = options.PreferredChain,
                            !.AlwaysDeactivateAuthorizations =
                                options.AlwaysDeactivateAuthorizations]]

\* RenewWithOptions, lines 516-575: the error it returns, or the request it
\* hands to ObtainForCSR / Obtain (nil options leave the zero values)
renewRequest(R, options) ==
    LET b == ParsePEMBundle(R.Certificate)
        d == PemDecodeTox509CSR(R.CSR)
        k == IF R.PrivateKey # "" THEN ParsePEMPrivateKey(R.PrivateKey)
             ELSE [ok |-> TRUE, key |-> ""]
    IN CASE ~b.ok -> [err |-> ParsePEMBundleErr, req |-> NoRequest]
         [] b.ok /\ b.certs[1].IsCA ->
                [err |-> PlainErr("Certificate bundle starts with a CA certificate"),
                 req |-> NoRequest]
         [] b.ok /\ ~b.certs[1].IsCA /\ R.CSR # "" /\ ~d.ok ->
                [err |-> PlainErr("PEM block is not a certificate request"), req |-> NoRequest]
         [] b.ok /\ ~b.certs[1].IsCA /\ R.CSR # "" /\ d.ok ->
                [err |-> NilErr,
                 req |-> [NoRequest EXCEPT
                            !.op = "ObtainForCSR", !.CSR = d.csr,
                            !.PreferredChain = options.PreferredChain,
                            !.AlwaysDeactivateAuthorizations =
                                options.AlwaysDeactivateAuthorizations]]
         [] b.ok /\ ~b.certs[1].IsCA /\ R.CSR = "" /\ ~k.ok ->
                [err |-> PlainErr("unknown PEM header"), req |-> NoRequest]
         [] OTHER ->
                [err |-> NilErr,
                 req |-> [NoRequest EXCEPT
                            !.op = "Obtain", !.Domains = ExtractDomains(b.certs[1]),
                            !.PrivateKey = k.key,
                            !.PreferredChain = options.PreferredChain,
                            !.AlwaysDeactivateAuthorizations =
                                options.AlwaysDeactivateAuthorizations]]

\* RenewWithOptions, lines 512-578: return the error, or call ObtainForCSR /
\* Obtain, whose results are the results of the renewal
RenewWithOptions ==
    /\ pc = "renew"
    /\ LET r == renewRequest(entry.certRes, entry.options)
       IN IF r.err # NilErr
          THEN /\ ret' = Return(NilResource, r.err)
               /\ failed' = Failure("RenewWithOptions", r.err)
               /\ pc' = "done"
               /\ req' = req
          ELSE /\ req' = r.req
               /\ pc' = "start"
               /\ UNCHANGED <<failed, ret>>
    /\ UNCHANGED <<entry, respOrder, ocsp, chains, domains, order, authz, csr, keyPem, certRes, got, polled,
                   elapsed, calls>>

\* an entry point other than the Obtain flows returns `err`
ReturnErr(op, err) ==
    /\ ret' = Return(NilResource, err)
    /\ failed' = IF err # NilErr THEN Failure(op, err) ELSE failed
    /\ pc' = "done"

\* RevokeWithReason without the check of lines 455-457
RevokeWithReasonAcceptsCA ==
    /\ pc = "revoke"
    /\ LET b == ParsePEMBundle(entry.cert)
       IN IF ~b.ok
          THEN ReturnErr("ParsePEMBundle", ParsePEMBundleErr) /\ calls' = calls
          ELSE /\ calls' = Append(calls, Call("Certificates.Revoke",
                                              RevokeCertMessage(b.certs[1], entry.reason)))
               /\ \E e \in {NilErr, PlainErr("revoke: unauthorized")} :
                     ReturnErr("Certificates.Revoke", e)
    /\ UNCHANGED <<entry, respOrder, ocsp, chains, req, domains, order, authz, csr, keyPem, certRes, got,
                   polled, elapsed>>

\* RevokeWithReason, lines 448-465 (Revoke, lines 443-445, passes a nil reason)
RevokeWithReason ==
    /\ pc = "revoke"
    /\ LET b == ParsePEMBundle(entry.cert)
       IN IF ~b.ok
          THEN ReturnErr("ParsePEMBundle", ParsePEMBundleErr) /\ calls' = calls
          ELSE IF b.certs[1].IsCA
          THEN /\ ReturnErr("RevokeWithReason",
                            PlainErr("certificate bundle starts with a CA certificate"))
               /\ calls' = calls
          ELSE /\ calls' = Append(calls, Call("Certificates.Revoke",
                                              RevokeCertMessage(b.certs[1], entry.reason)))
               /\ \E e \in {NilErr, PlainErr("revoke: unauthorized")} :
                     ReturnErr("Certificates.Revoke", e)
    /\ UNCHANGED <<entry, respOrder, ocsp, chains, req, domains, order, authz, csr, keyPem, certRes, got,
                   polled, elapsed>>

\* GetOCSP with the issuer fetched from the last issuing-certificate URL
ocspPlanLastURL(certs) ==
    LET issuedCert == certs[1]
    IN CASE Len(issuedCert.OCSPServer) = 0 ->
              [err |-> PlainErr("no OCSP server specified in cert"), fetch |-> ""]
         [] Len(issuedCert.OCSPServer) > 0 /\ Len(certs) = 1
               /\ Len(issuedCert.IssuingCertificateURL) = 0 ->
              [err |-> PlainErr("no issuing certificate URL"), fetch |-> ""]
         [] Len(issuedCert.OCSPServer) > 0 /\ Len(certs) = 1
               /\ Len(issuedCert.IssuingCertificateURL) > 0 ->
              [err |-> NilErr,
               fetch |-> issuedCert.IssuingCertificateURL[Len(issuedCert.IssuingCertificateURL)]]
         [] OTHER -> [err |-> NilErr, fetch |-> ""]

\* GetOCSP, lines 600-612: the error of the checks that precede every
\* request, or the URL the issuer is to be fetched from ("" when the bundle
\* brings its issuer)
ocspPlan(certs) ==
    LET issuedCert == certs[1]
    IN CASE Len(issuedCert.OCSPServer) = 0 ->
              [err |-> PlainErr("no OCSP server specified in cert"), fetch |-> ""]
         [] Len(issuedCert.OCSPServer) > 0 /\ Len(certs) = 1
               /\ Len(issuedCert.IssuingCertificateURL) = 0 ->
              [err |-> PlainErr("no issuing certificate URL"), fetch |-> ""]
         [] Len(issuedCert.OCSPServer) > 0 /\ Len(certs) = 1
               /\ Len(issuedCert.IssuingCertificateURL) > 0 ->
              [err |-> NilErr, fetch |-> issuedCert.IssuingCertificateURL[1]]
         [] OTHER -> [err |-> NilErr, fetch |-> ""]

\* GetOCSP, lines 633-657: build the request, POST it, read and parse the answer
ocspRequest(log, issuedCert, issuerCert) ==
    \/ /\ ReturnErr("ocsp.CreateRequest", PlainErr("create OCSP request"))
       /\ calls' = log
       /\ ocsp' = ocsp
    \/ /\ calls' = Append(log, Call("HTTPClient.Post", issuedCert.OCSPServer[1]))
       /\ \/ /\ \E f \in {"HTTPClient.Post", "io.ReadAll(response)", "ocsp.ParseResponse"} :
                   ReturnErr(f, PlainErr("ocsp: " \o f))
             /\ ocsp' = ocsp
          \/ /\ ReturnErr("", NilErr)
             /\ ocsp' = [raw |-> "ocsp(" \o issuedCert.Raw \o ")",
                         response |-> "signed by " \o issuerCert.Raw]

\* GetOCSP, lines 588-658
GetOCSP ==
    /\ pc = "ocsp"
    /\ LET b == ParsePEMBundle(entry.bundle)
       IN IF ~b.ok
          THEN ReturnErr("ParsePEMBundle", ParsePEMBundleErr) /\ UNCHANGED <<calls, ocsp>>
          ELSE LET plan == ocspPlan(b.certs)
                   log == Append(calls, Call("HTTPClient.Get", plan.fetch))
               IN IF plan.err # NilErr
                  THEN ReturnErr("GetOCSP", plan.err) /\ UNCHANGED <<calls, ocsp>>
                  ELSE IF plan.fetch # ""
                  THEN \/ /\ \E f \in {"HTTPClient.Get", "io.ReadAll(issuer)",
                                        "x509.ParseCertificate"} :
                                ReturnErr(f, PlainErr("issuer: " \o f))
                          /\ calls' = log
                          /\ ocsp' = ocsp
                       \/ ocspRequest(log, b.certs[1], IssuerA)
                  ELSE ocspRequest(calls, b.certs[1], b.certs[2])
    /\ UNCHANGED <<entry, respOrder, chains, req, domains, order, authz, csr, keyPem, certRes, got, polled,
                   elapsed>>

Next ==
    \/ RenewWithOptions
    \/ RevokeWithReason
    \/ GetOCSP
    \/ ObtainStart
    \/ ObtainForCSRStart
    \/ GetAuthorizations
    \/ Solve
    \/ GetForOrder
    \/ PrepareForCSR
    \/ Finalize
    \/ PollStep
    \/ PollTimeout

Spec == Init /\ [][Next]_vars

\* the invocation runs on: a goroutine inside Obtain is never suspended for ever
FairSpec == Spec /\ WF_vars(Next)

-----------------------------------------------------------------------------
(* Properties *)

Done == pc = "done"
Last(q) == q[Len(q)]
CallsOf(ops) == {i \in 1..Len(calls) : calls[i].op \in ops}
Deactivations == CallsOf({"deactivateAuthorizations"})
Forced == {i \in Deactivations : calls[i].arg = "force"}
Unforced == {i \in Deactivations : calls[i].arg = "noforce"}
OrderCreated == order # NoOrder
NonTerminal == {"pending", "processing", "ready"}
InvalidOrderErrs == {PlainErr("invalid order: " \o pd) : pd \in ProblemDetails}
\* the composite error that attributes `inner` to at least one domain
Wraps(e, inner) == e.kind = "obtainError" /\ e.data # {} /\ \A p \in e.data : p[2] = inner

\* C1: all or nothing. When Solve returns an error for an order of two or
\* more domains, the call returns a nil Resource with exactly that error, and
\* neither Orders.UpdateForCSR nor Orders.Get nor Certificates.GetAll is called.
C1_SolveFailureAllOrNothing ==
    (failed.op = "Solve" /\ Len(domains) >= 2) =>
        /\ Done
        /\ ret = Return(NilResource, failed.err)
        /\ CallsOf({"Orders.UpdateForCSR", "Orders.Get", "Certificates.GetAll"}) = {}

C1_Witness ==
    /\ Done
    /\ failed.op = "Solve"
    /\ Len(domains) >= 2
    /\ failed.err = PlainErr("solve: " \o domains[2])
    /\ ret.err = failed.err

\* C2: when the call returns a non-nil error that comes from the finalize /
\* poll stage, the Resource returned with it has no Certificate bytes.
C2_NoCertificateBytesOnError ==
    (Done /\ ret.returned /\ got.err # NilErr /\ ret.err # NilErr) => ret.res.Certificate = ""

\* C3: in the poll loop `invalid` is terminal. Once Orders.Get answered with
\* an invalid order the call has ended, no later poll happened, and the call
\* returned an error that carries the problem detail of the CA.
C3_InvalidIsTerminal ==
    (\E i \in 1..Len(polled) : polled[i] = "invalid") =>
        /\ Done
        /\ Last(polled) = "invalid"
        /\ failed.err \in InvalidOrderErrs
        /\ ret.returned
        /\ Wraps(ret.err, failed.err)

\* C4: when the timer of the poll loop fires before the order is valid, the
\* call returns the timeout error, never a nil error, and that error differs
\* from every error of an order the CA declared invalid.
C4_TimeoutIsFatal ==
    failed.op = "wait.For" =>
        /\ Done
        /\ ret.returned
        /\ Wraps(ret.err, waitForTimeUp)
        /\ waitForTimeUp \notin InvalidOrderErrs

C6_ReturnsWithError ==
    /\ Done => ret.returned
    /\ failed.op \in {"wait.For", "Orders.Get"} => (ret.returned /\ ret.err # NilErr)

\* C7: with AlwaysDeactivateAuthorizations false, a call that returns a nil
\* error has made no deactivation call.
C7_NoDeactivationOnSuccess ==
    (~req.AlwaysDeactivateAuthorizations /\ Done /\ ret.returned /\ ret.err = NilErr) =>
        Deactivations = {}

C7_Witness ==
    /\ ~req.AlwaysDeactivateAuthorizations
    /\ Done
    /\ ret.returned
    /\ ret.err = NilErr
    /\ ret.res.Certificate # ""
    /\ Deactivations = {}

\* C8 as claimed: once the order exists, a call with the flag set has made
\* exactly one forced deactivation when it returns, and a call without the
\* flag has made no deactivation call on the failure exits of the
\* authorization fetch and of Solve.
C8_Original ==
    (Done /\ ret.returned /\ OrderCreated) =>
        IF req.AlwaysDeactivateAuthorizations
        THEN Cardinality(Forced) = 1 /\ Unforced = {}
        ELSE failed.op \in {"getAuthorizations", "Solve"} => Deactivations = {}

\* C8 as amended: once the order exists, a call with the flag set has called
\* deactivateAuthorizations exactly once, forced, as its last call to a
\* collaborator, whichever way it returns; a call without the flag has
\* called it exactly once, unforced, on the failure exits of the
\* authorization fetch and of Solve, and not at all on the other exits.
C8_CleanupFollowsFlag ==
    (Done /\ ret.returned /\ OrderCreated) =>
        IF req.AlwaysDeactivateAuthorizations
        THEN /\ Cardinality(Forced) = 1
             /\ Unforced = {}
             /\ Last(calls).op = "deactivateAuthorizations"
        ELSE /\ Forced = {}
             /\ Cardinality(Unforced) =
                    IF failed.op \in {"getAuthorizations", "Solve"} THEN 1 ELSE 0
             /\ Unforced # {} => Last(calls).op = "deactivateAuthorizations"

C8_Witness ==
    /\ Done
    /\ ret.returned
    /\ OrderCreated
    /\ ~req.AlwaysDeactivateAuthorizations
    /\ failed.op = "Solve"
    /\ Cardinality(Unforced) = 1

\* C9: a request without domains, or without a CSR, is answered at once
\* with (nil, error), and no collaborator is ever called.
InputError ==
    \/ req.op = "Obtain" /\ Len(req.Domains) = 0
    \/ req.op = "ObtainForCSR" /\ req.CSR.nil

C9_InputErrorsAreSideEffectFree ==
    InputError =>
        /\ calls = <<>>
        /\ pc \in {"start", "done"}
        /\ Done => (ret.returned /\ ret.res = NilResource /\ ret.err.kind = "plain")

C9_Witness ==
    /\ InputError
    /\ Done
    /\ req.op = "ObtainForCSR"
    /\ calls = <<>>
    /\ ret.err = PlainErr("cannot obtain resource for CSR: CSR is missing")

\* C10: when order creation fails the call returns (nil, that very error),
\* and Orders.NewWithOptions is the only call it has made, whatever the flag.
C10_OrderCreationFailure ==
    failed.op = "Orders.NewWithOptions" =>
        /\ Done
        /\ ret = Return(NilResource, failed.err)
        /\ Len(calls) = 1
        /\ calls[1].op = "Orders.NewWithOptions"

C10_Witness ==
    /\ Done
    /\ failed = Failure("Orders.NewWithOptions", PlainErr("new-order: rate limited"))
    /\ req.AlwaysDeactivateAuthorizations
    /\ Len(calls) = 1

\* Certificates.GetAll answered with a map of candidate chains, and
\* checkResponse went on to the Chain Selector
ChainsFetched == chains # NoChains /\ chains.err = NilErr
\* the candidates whose issuer chain parses and whose topmost certificate
\* has Issuer CommonName `preferredChain`
Matching(preferredChain) ==
    {l \in DOMAIN chains.certs :
        LET p == ParseIssuer(chains.certs[l].Issuer)
        IN p.ok /\ p.topIssuerCN = preferredChain}
\* certRes carries the certificate, the issuer and the URL of candidate `l`
Selected(l) ==
    /\ certRes.Certificate = Lookup(chains.certs, l).Cert
    /\ certRes.IssuerCertificate = Lookup(chains.certs, l).Issuer
    /\ certRes.CertURL = l
    /\ certRes.CertStableURL = l

\* C11: on a valid order whose chains were fetched, the Chain Selector ends
\* without error: with no preference certRes carries the entry keyed by the
\* order's certificate URL, with a preference that exactly one candidate
\* matches certRes carries that candidate, and with a preference no
\* candidate matches certRes carries the default entry.
C11_ChainSelector ==
    ChainsFetched =>
        /\ failed.op # "checkResponse"
        /\ req.PreferredChain = "" => Selected(DefaultURL)
        /\ (req.PreferredChain # "" /\ Cardinality(Matching(req.PreferredChain)) = 1) =>
              \A l \in Matching(req.PreferredChain) : Selected(l)
        /\ (req.PreferredChain # "" /\ Matching(req.PreferredChain) = {}) =>
              Selected(DefaultURL)

Renewing == entry.op = "RenewWithOptions"
\* the renewal has called ObtainForCSR or Obtain
FlowEntered == Renewing /\ req # NoRequest
\* the stored private key is present and is the PEM encoding of a key
StoredKeyUsable == entry.certRes.PrivateKey # "" /\ ParsePEMPrivateKey(entry.certRes.PrivateKey).ok

\* C12: a renewal of a Resource whose PrivateKey is present carries that key
\* into the flow it enters, on the stored-CSR path and on the
\* extracted-domains path alike, and a Resource returned with a nil error
\* holds that same key.
C12_RenewalKeepsKey ==
    (FlowEntered /\ StoredKeyUsable) =>
        /\ PEMEncode(req.PrivateKey) = entry.certRes.PrivateKey
        /\ (Done /\ ret.returned /\ ret.err = NilErr /\ ~ret.res.nil) =>
              ret.res.PrivateKey = entry.certRes.PrivateKey

CSRBuilt == req.op = "Obtain" /\ csr.Raw = "csr(created)"
Occurrences(q, x) == Cardinality({i \in 1..Len(q) : q[i] = x})

FinalizeOrFetch == {"Orders.UpdateForCSR", "Orders.Get", "checkResponse", "wait.For"}

\* C15: when finalizing the order or fetching the certificate failed, the
\* call returns a composite error with exactly one entry per domain of the
\* authorizations, each entry carrying that error; when no failure was
\* recorded the call returns a nil error.
C15_FailureAttributedToEveryDomain ==
    (Done /\ ret.returned /\ req.op \in {"Obtain", "ObtainForCSR"}) =>
        /\ (failed.op \in FinalizeOrFetch /\ got.err # NilErr) =>
              /\ ret.err.kind = "obtainError"
              /\ {p[1] : p \in ret.err.data} = Range(authz)
              /\ Cardinality(ret.err.data) = Cardinality(Range(authz))
              /\ \A p \in ret.err.data : p[2] = got.err
        /\ failed = NoFailure => ret.err = NilErr

\* C16: a Resource returned by Obtain / ObtainForCSR with a nil error has a
\* non-empty Certificate, which is the certificate of one of the chains
\* Certificates.GetAll answered with for the order.
C16_CertificateNeverEmpty ==
    (Done /\ ret.returned /\ ret.err = NilErr /\ ~ret.res.nil) =>
        /\ ret.res.Certificate # ""
        /\ ChainsFetched
        /\ \E l \in DOMAIN chains.certs : ret.res.Certificate = chains.certs[l].Cert

Revoking == entry.op = "RevokeWithReason"

\* C17: a revocation of a bundle whose first certificate is a CA certificate
\* returns an error and never calls Certificates.Revoke; a revocation of a
\* bundle whose first certificate is not a CA certificate has, when it
\* returns, made one call in all: Certificates.Revoke with the message built
\* from the first certificate and the given reason.
C17_RevokeRejectsCA ==
    (Revoking /\ ParsePEMBundle(entry.cert).ok) =>
        LET x509Cert == ParsePEMBundle(entry.cert).certs[1]
        IN IF x509Cert.IsCA
           THEN /\ calls = <<>>
                /\ Done => (ret.returned /\ ret.err.kind = "plain")
           ELSE /\ Done =>
                    calls = <<Call("Certificates.Revoke",
                                   RevokeCertMessage(x509Cert, entry.reason))>>
                /\ ~Done => calls = <<>>

C17_Witness ==
    /\ Revoking
    /\ Done
    /\ entry.cert = "leaf0.pem+issuerA.pem"
    /\ entry.reason = "4"
    /\ calls = <<Call("Certificates.Revoke", "b64(der(leaf0));reason=4")>>
    /\ ret.err = NilErr

OCSPCall == entry.op = "GetOCSP"
Gets == CallsOf({"HTTPClient.Get"})
Posts == CallsOf({"HTTPClient.Post"})
IssuerFetchSteps == {"HTTPClient.Get", "io.ReadAll(issuer)", "x509.ParseCertificate"}

\* C18: GetOCSP on a leaf without an OCSP responder URL returns an error and
\* makes no request at all; on a bundle that holds the leaf alone it makes
\* one GET at most, to the first issuing-certificate URL of the leaf, and
\* never posts without that GET before; and when a step of the issuer fetch
\* fails the call returns that error and no POST is sent.
C18_OCSPFailsFast ==
    (OCSPCall /\ ParsePEMBundle(entry.bundle).ok) =>
        LET certs == ParsePEMBundle(entry.bundle).certs
            issuedCert == certs[1]
        IN /\ Len(issuedCert.OCSPServer) = 0 =>
                 /\ calls = <<>>
                 /\ Done => (ret.returned /\ ret.err.kind = "plain" /\ ocsp = NoOCSP)
           /\ Len(certs) = 1 =>
                 /\ Cardinality(Gets) <= 1
                 /\ \A i \in Gets : calls[i].arg = issuedCert.IssuingCertificateURL[1]
                 /\ \A j \in Posts : \E i \in Gets : i < j
           /\ Len(certs) > 1 => Gets = {}
           /\ failed.op \in IssuerFetchSteps =>
                 /\ Done
                 /\ ret.returned
                 /\ ret.err = failed.err
                 /\ ocsp = NoOCSP
                 /\ Posts = {}
                 /\ Cardinality(Gets) = 1

C18_Witness ==
    /\ OCSPCall
    /\ Done
    /\ entry.bundle = "leaf0.pem"
    /\ failed.op = "x509.ParseCertificate"
    /\ calls = <<Call("HTTPClient.Get", "http://ca/issuerA.der")>>
    /\ ret.err # NilErr

\* the call handed back a Resource and a nil error
Succeeded == Done /\ ret.returned /\ ret.err = NilErr /\ ~ret.res.nil

\* C19: the Resource of a successful ObtainForCSR has in its CSR field the
\* PEM encoding of the CSR of the request: it is not empty, it decodes to
\* that CSR, and a renewal of the Resource whose certificate parses builds
\* an ObtainForCSR request for that CSR; a renewal that went through
\* ObtainForCSR hands back the stored CSR it started from.  The Resource of
\* a fresh-domain Obtain has an empty CSR field.
C19_CSRStamping ==
    /\ (Succeeded /\ req.op = "ObtainForCSR") =>
          /\ ret.res.CSR = PEMEncode(req.CSR.Raw)
          /\ ret.res.CSR # ""
          /\ PemDecodeTox509CSR(ret.res.CSR) = [ok |-> TRUE, csr |-> req.CSR]
          /\ ret.res.Certificate # "" =>
                LET r == renewRequest(ret.res, NoOptions)
                IN r.err = NilErr /\ r.req.op = "ObtainForCSR" /\ r.req.CSR = req.CSR
          /\ Renewing => ret.res.CSR = entry.certRes.CSR
    /\ (Done /\ ret.returned /\ req.op = "Obtain") => ret.res.CSR = ""

C19_Witness ==
    /\ Succeeded
    /\ entry.op = "ObtainForCSR"
    /\ req.CSR.DNSNames = <<"a.com", "b.org">>
    /\ ret.res.Certificate = "leaf1.pem"
    /\ ret.res.CSR = "PEM(csr(a.com;a.com,b.org,))"

CanEncode(d) == ToASCII(d).ok
\* the list `q` without its element at position j
Without(q, j) == [i \in 1..(Len(q) - 1) |-> IF i < j THEN q[i] ELSE q[i + 1]]
\* Obtain has sanitized the non-empty Domains of its request
Sanitized == req.op = "Obtain" /\ Len(req.Domains) > 0 /\ pc # "start"

\* C20: for a non-empty Domains list the sanitized list is not longer than
\* the list given, it is the encoding of the names that can be encoded, one
\* by one and in the order they were given, and taking a name that cannot
\* be encoded out of the input changes nothing in the output.
C20_SanitizePreservesOrder ==
    Sanitized =>
        LET kept == SelectSeq(req.Domains, CanEncode)
        IN /\ Len(domains) <= Len(req.Domains)
           /\ Len(domains) = Len(kept)
           /\ \A i \in 1..Len(kept) : domains[i] = ToASCII(kept[i]).val
           /\ \A j \in 1..Len(req.Domains) :
                 ~CanEncode(req.Domains[j]) => sanitizeDomain(Without(req.Domains, j)) = domains

C20_Witness ==
    /\ Sanitized
    /\ req.Domains = <<"xn--bad", "u.de">>
    /\ domains = <<"xn--u.de">>

\* Orders.UpdateForCSR answered with an order, and the poll loop has not
\* taken a sample yet
FinalizeAnswered == respOrder # NoOrder
OrderGets == CallsOf({"Orders.Get"})

\* C21: when Orders.UpdateForCSR answers with a valid order, the chains of
\* that order are fetched, the call returns, and Orders.Get was never
\* called; when it answers with an order of any other status, the poll
\* loop is entered.
C21_FastPath ==
    FinalizeAnswered =>
        IF respOrder.Status = "valid"
        THEN /\ Done
             /\ ret.returned
             /\ OrderGets = {}
             /\ polled = <<>>
             /\ \E i \in CallsOf({"Certificates.GetAll"}) : calls[i].arg = respOrder.Certificate
        ELSE /\ pc = "poll"
             /\ elapsed = 0
             /\ ret = NotReturned

\* the call is past the input checks of Obtain / ObtainForCSR
InFlow == req.op \in {"Obtain", "ObtainForCSR"} /\ pc # "start" /\ ~InputError

\* C22: one invocation asks for exactly one order, as its first call; it
\* calls Solve at most once, after the authorizations were fetched without
\* error, and after a failure of Solve it calls nothing but the cleanup; it
\* finalizes at most once, after a Solve that succeeded; and every
\* Orders.Get comes after the finalize call and asks for the Location of
\* the order created.
C22_ProtocolOrder ==
    LET news == CallsOf({"Orders.NewWithOptions"})
        auths == CallsOf({"getAuthorizations"})
        solves == CallsOf({"Solve"})
        finals == CallsOf({"Orders.UpdateForCSR"})
    IN /\ Cardinality(news) <= 1
       /\ InFlow => news = {1}
       /\ Cardinality(solves) <= 1
       /\ \A j \in solves : failed.op # "getAuthorizations" /\ \E i \in auths : i < j
       /\ failed.op = "Solve" =>
             /\ Done
             /\ \A j \in solves : \A i \in (j + 1)..Len(calls) :
                   calls[i].op = "deactivateAuthorizations"
       /\ Cardinality(finals) <= 1
       /\ \A k \in finals : failed.op # "Solve" /\ \E j \in solves : j < k
       /\ \A g \in OrderGets :
             /\ calls[g].arg = order.Location
             /\ order.Location = OrderLocation
             /\ \E k \in finals : k < g

C22_Witness ==
    /\ InFlow
    /\ Done
    /\ Cardinality(OrderGets) = 2
    /\ Cardinality(CallsOf({"Solve"})) = 1
    /\ ret.returned
    /\ ret.err = NilErr
    /\ ret.res.Certificate = "leaf0.pem"

\* C23: when the finalize / poll stage failed after Solve succeeded, the
\* call returns a non-nil error, whatever the list of authorizations of
\* the order (empty, or with several authorizations for one domain).
C23_FailedIssuanceReturnsError ==
    (Done /\ ret.returned /\ failed.op \in FinalizeOrFetch) => ret.err # NilErr

\* the domain list handed to the order is empty although the request passed
\* the input checks
NoDomainLeft == InFlow /\ domains = <<>>

\* C24: a call whose domain list is empty after sanitizing (Obtain) or
\* after the extraction from the CSR (ObtainForCSR) never indexes that
\* list, and when it ends it has returned an error.
C24_EmptyDomainsReturnError ==
    NoDomainLeft =>
        /\ ~ret.panic
        /\ Done => (ret.returned /\ ret.err # NilErr)

\* C25: in a Resource returned with a nil error, Certificate,
\* IssuerCertificate, CertURL and CertStableURL are those of one entry of
\* the chains Certificates.GetAll answered with, CertURL being its key.
C25_FieldsFromOneEntry ==
    (Succeeded /\ req.op \in {"Obtain", "ObtainForCSR"}) =>
        /\ ChainsFetched
        /\ \E l \in DOMAIN chains.certs :
              /\ ret.res.Certificate = chains.certs[l].Cert
              /\ ret.res.IssuerCertificate = chains.certs[l].Issuer
              /\ ret.res.CertURL = l
              /\ ret.res.CertStableURL = l

====
